---- MODULE Spec2Model ----
(***************************************************************************)
(* Model of the buffer-update broker of src/nvim/buffer_updates.c: the     *)
(* per-buffer list of subscribed channels (buf->update_channels) and the   *)
(* five entry points that register, unregister and notify channels.        *)
(* Every action is one complete call of an entry point; the events the     *)
(* call hands to rpc_send_event are recorded, in order, in `call.out' and  *)
(* appended to the history `sent'.  The calls are serialized: the record   *)
(* `call' of a call is kept until the call has returned.                   *)
(***************************************************************************)
EXTENDS Integers, Sequences, FiniteSets, TLC

\* ---------------------------------------------------------------- bounds
\* no call is started once this many events have been handed to the sink
MaxSent == 4
\* b_changedtick is not advanced beyond this value
MaxTick == 1
\* the repeated change notifications start from at most this many subscribers
MaxSubscribers == 3

\* ------------------------------------------------------------- constants
\* uint64_t channel ids; 0 is a legal uint64_t value
Channels == {0, 21, 22, 23}
\* buf->handle of the one buffer of the model
handle == 7
\* bytes of the stored lines: 'a' (97), 'b' (98) and NL, Vim's stand-in for NUL
NL == 10
NUL == 0
\* the texts the buffer takes: lines are C strings without the terminator
InitialText == << <<97, NL, 98>> >>
Buffers == { InitialText, << <<97>>, <<NL, 98, NL>> >> }

VARIABLES
  ml_mfp,           \* buf->b_ml.ml_mfp != NULL: the buffer is loaded
  update_channels,  \* buf->update_channels, a kvec of channel ids
  b_changedtick,    \* buf->b_changedtick
  ml_lines,         \* the buffer's lines, ml_get_buf(buf, lnum) = ml_lines[lnum]
  sent,             \* every event handed to rpc_send_event so far, in order
  call              \* the last call of an entry point and what it did

vars == <<ml_mfp, update_channels, b_changedtick, ml_lines, sent, call>>

\* ------------------------------------------------------ API object helpers
BUFFER_OBJ(h) == [type |-> "buffer", data |-> h]
INTEGER_OBJ(i) == [type |-> "integer", data |-> i]
BOOLEAN_OBJ(b) == [type |-> "boolean", data |-> b]
STRING_OBJ(s) == [type |-> "string", data |-> s]
ARRAY_OBJ(a) == [type |-> "array", data |-> a]
NIL == [type |-> "nil"]

\* mutant: only the first occurrence of c is replaced
strchrsub_FirstOnly(str, c, x) ==
  [k \in 1..Len(str) |->
     IF str[k] = c /\ (\A m \in 1..(k - 1) : str[m] # c) THEN x ELSE str[k]]

\* strchrsub(str, '\n', '\0'): replace every c by x in the copy
strchrsub(str, c, x) == [k \in 1..Len(str) |-> IF str[k] = c THEN x ELSE str[k]]

\* ml_get_buf(buf, lnum, false)
ml_get_buf(lines, lnum) == lines[lnum]

\* rpc_send_event(id, name, args): the sink's answer is an input of the call,
\* the set `dead' of channels for which it returns false
rpc_send_event(dead, id) == id \notin dead

Event(dead, id, name, args) ==
  [ch |-> id, ev |-> name, args |-> args, ok |-> rpc_send_event(dead, id)]

\* kvec helpers
Range(v) == {v[k] : k \in 1..Len(v)}
kv_size(v) == Len(v)
kv_A(v, i) == v[i + 1]
kv_push(v, x) == Append(v, x)
kv_init == <<>>

\* ------------------------------------------------- buf_updates_register
\* mutant: the search stops one element short (i < size - 1)
RECURSIVE RegisterFind_OffByOne(_, _, _)
RegisterFind_OffByOne(v, channel_id, i) ==
  IF i >= kv_size(v) - 1 THEN FALSE
  ELSE IF kv_A(v, i) = channel_id THEN TRUE
  ELSE RegisterFind_OffByOne(v, channel_id, i + 1)

\* the search loop of lines 18-26
RECURSIVE RegisterFind(_, _, _)
RegisterFind(v, channel_id, i) ==
  IF i >= kv_size(v) THEN FALSE
  ELSE IF kv_A(v, i) = channel_id THEN TRUE
  ELSE RegisterFind(v, channel_id, i + 1)

\* mutant: the last line of the buffer is left out (i < line_count - 1)
RegisterLinedata_MissingLast(lines, send_buffer) ==
  IF send_buffer
  THEN [i \in 1..(Len(lines) - 1) |->
          STRING_OBJ(strchrsub(ml_get_buf(lines, i), NL, NUL))]
  ELSE <<>>

\* linedata of lines 31-51
RegisterLinedata(lines, send_buffer) ==
  IF send_buffer
  THEN [i \in 1..Len(lines) |-> STRING_OBJ(strchrsub(ml_get_buf(lines, i), NL, NUL))]
  ELSE <<>>

RegisterArgs(lines, tick, send_buffer) ==
  << BUFFER_OBJ(handle), INTEGER_OBJ(tick),
     ARRAY_OBJ(RegisterLinedata(lines, send_buffer)), BOOLEAN_OBJ(FALSE) >>

\* mutant: the start event is sent only together with a snapshot
buf_updates_register_OnlyWithSnapshot(loaded, v, lines, tick, channel_id, send_buffer, dead) ==
  IF ~loaded
  THEN [ret |-> FALSE, channels |-> v, out |-> <<>>]
  ELSE IF RegisterFind(v, channel_id, 0)
  THEN [ret |-> TRUE, channels |-> v, out |-> <<>>]
  ELSE [ret |-> TRUE,
        channels |-> kv_push(v, channel_id),
        out |-> IF send_buffer
                THEN << Event(dead, channel_id, "nvim_buf_updates_start",
                              RegisterArgs(lines, tick, send_buffer)) >>
                ELSE <<>>]

\* mutant: a repeated registration that asks for the buffer gets it again
buf_updates_register_Resend(loaded, v, lines, tick, channel_id, send_buffer, dead) ==
  IF ~loaded
  THEN [ret |-> FALSE, channels |-> v, out |-> <<>>]
  ELSE IF RegisterFind(v, channel_id, 0) /\ ~send_buffer
  THEN [ret |-> TRUE, channels |-> v, out |-> <<>>]
  ELSE [ret |-> TRUE,
        channels |-> IF RegisterFind(v, channel_id, 0) THEN v
                     ELSE kv_push(v, channel_id),
        out |-> << Event(dead, channel_id, "nvim_buf_updates_start",
                         RegisterArgs(lines, tick, send_buffer)) >>]

\* mutant: the test for an unloaded buffer is missing
buf_updates_register_NoLoadedCheck(loaded, v, lines, tick, channel_id, send_buffer, dead) ==
  IF RegisterFind(v, channel_id, 0)
  THEN [ret |-> TRUE, channels |-> v, out |-> <<>>]
  ELSE [ret |-> TRUE,
        channels |-> kv_push(v, channel_id),
        out |-> << Event(dead, channel_id, "nvim_buf_updates_start",
                         RegisterArgs(lines, tick, send_buffer)) >>]

\* the whole function: return value, new channel list, events sent
buf_updates_register(loaded, v, lines, tick, channel_id, send_buffer, dead) ==
  IF ~loaded
  THEN [ret |-> FALSE, channels |-> v, out |-> <<>>]
  ELSE IF RegisterFind(v, channel_id, 0)
  THEN [ret |-> TRUE, channels |-> v, out |-> <<>>]
  ELSE [ret |-> TRUE,
        channels |-> kv_push(v, channel_id),
        out |-> << Event(dead, channel_id, "nvim_buf_updates_start",
                         RegisterArgs(lines, tick, send_buffer)) >>]

\* ------------------------------------------------- buf_updates_send_end
buf_updates_send_end(dead, channelid) ==
  << Event(dead, channelid, "nvim_buf_updates_end", << BUFFER_OBJ(handle) >>) >>

\* ----------------------------------------------- buf_updates_unregister
\* mutant: the slot of a removed id is filled with the last element
UnregisterLoop_SwapLast(v, channelid, i, j, found) ==
  [arr |-> [k \in 1..Len(v) |-> IF v[k] = channelid THEN v[Len(v)] ELSE v[k]],
   found |-> Cardinality({k \in 1..Len(v) : v[k] = channelid})]

\* the compaction loop of lines 85-97: state (array, j, found) at index i
RECURSIVE UnregisterLoop(_, _, _, _, _)
UnregisterLoop(v, channelid, i, j, found) ==
  IF i >= kv_size(v) THEN [arr |-> v, found |-> found]
  ELSE IF kv_A(v, i) = channelid
  THEN UnregisterLoop(v, channelid, i + 1, j, found + 1)
  ELSE UnregisterLoop(IF i # j THEN [v EXCEPT ![j + 1] = kv_A(v, i)] ELSE v,
                      channelid, i + 1, j + 1, found)

\* mutant: the array is compacted but its size is not reduced
buf_updates_unregister_NoShrink(v, channelid, dead) ==
  IF kv_size(v) = 0
  THEN [channels |-> v, out |-> <<>>]
  ELSE LET r == UnregisterLoop(v, channelid, 0, 0, 0)
           size == kv_size(v)
       IN IF r.found > 0
          THEN [channels |-> IF r.found = size THEN kv_init ELSE r.arr,
                out |-> buf_updates_send_end(dead, channelid)]
          ELSE [channels |-> r.arr, out |-> <<>>]

\* mutant: the end event is sent only when the list becomes empty
buf_updates_unregister_EndWhenEmpty(v, channelid, dead) ==
  IF kv_size(v) = 0
  THEN [channels |-> v, out |-> <<>>]
  ELSE LET r == UnregisterLoop(v, channelid, 0, 0, 0)
           size == kv_size(v)
       IN IF r.found > 0
          THEN [channels |-> IF r.found = size THEN kv_init
                             ELSE SubSeq(r.arr, 1, size - r.found),
                out |-> IF r.found = size
                        THEN buf_updates_send_end(dead, channelid)
                        ELSE <<>>]
          ELSE [channels |-> r.arr, out |-> <<>>]

\* mutant: the end event is sent whether or not the id was found
buf_updates_unregister_AlwaysEnd(v, channelid, dead) ==
  IF kv_size(v) = 0
  THEN [channels |-> v, out |-> <<>>]
  ELSE LET r == UnregisterLoop(v, channelid, 0, 0, 0)
           size == kv_size(v)
       IN [channels |-> IF r.found = size THEN kv_init
                        ELSE SubSeq(r.arr, 1, size - r.found),
           out |-> buf_updates_send_end(dead, channelid)]

buf_updates_unregister(v, channelid, dead) ==
  IF kv_size(v) = 0
  THEN [channels |-> v, out |-> <<>>]
  ELSE LET r == UnregisterLoop(v, channelid, 0, 0, 0)
           size == kv_size(v)
       IN IF r.found > 0
          THEN [channels |-> IF r.found = size THEN kv_init
                             ELSE SubSeq(r.arr, 1, size - r.found),
                out |-> buf_updates_send_end(dead, channelid)]
          ELSE [channels |-> r.arr, out |-> <<>>]

\* ------------------------------------------- buf_updates_unregister_all
\* mutant: the loop stops one element short (i < size - 1)
RECURSIVE UnregisterAllLoop_OffByOne(_, _, _)
UnregisterAllLoop_OffByOne(v, dead, i) ==
  IF i >= kv_size(v) - 1 THEN <<>>
  ELSE buf_updates_send_end(dead, kv_A(v, i))
       \o UnregisterAllLoop_OffByOne(v, dead, i + 1)

\* mutant: the list is walked from its end
RECURSIVE UnregisterAllLoop_Backwards(_, _, _)
UnregisterAllLoop_Backwards(v, dead, i) ==
  IF i >= kv_size(v) THEN <<>>
  ELSE buf_updates_send_end(dead, kv_A(v, kv_size(v) - 1 - i))
       \o UnregisterAllLoop_Backwards(v, dead, i + 1)

RECURSIVE UnregisterAllLoop(_, _, _)
UnregisterAllLoop(v, dead, i) ==
  IF i >= kv_size(v) THEN <<>>
  ELSE buf_updates_send_end(dead, kv_A(v, i)) \o UnregisterAllLoop(v, dead, i + 1)

buf_updates_unregister_all(v, dead) ==
  IF kv_size(v) > 0
  THEN [channels |-> kv_init, out |-> UnregisterAllLoop(v, dead, 0)]
  ELSE [channels |-> v, out |-> <<>>]

\* --------------------------------------------- buf_updates_send_changes
\* linedata of lines 156-175
SendChangesLinedata(lines, firstline, num_added) ==
  IF num_added > 0
  THEN [i \in 1..num_added |->
          STRING_OBJ(strchrsub(ml_get_buf(lines, firstline + (i - 1)), NL, NUL))]
  ELSE <<>>

\* mutant: the end of the removed range is not made zero-based
SendChangesArgs_LastlineOneBased(lines, tick, firstline, num_added, num_removed, send_tick) ==
  << BUFFER_OBJ(handle),
     IF send_tick THEN INTEGER_OBJ(tick) ELSE NIL,
     INTEGER_OBJ(firstline - 1),
     INTEGER_OBJ(firstline + num_removed),
     ARRAY_OBJ(SendChangesLinedata(lines, firstline, num_added)) >>

SendChangesArgs(lines, tick, firstline, num_added, num_removed, send_tick) ==
  << BUFFER_OBJ(handle),
     IF send_tick THEN INTEGER_OBJ(tick) ELSE NIL,
     INTEGER_OBJ(firstline - 1),
     INTEGER_OBJ(firstline - 1 + num_removed),
     ARRAY_OBJ(SendChangesLinedata(lines, firstline, num_added)) >>

\* mutant: the loop is left at the first failed delivery
RECURSIVE SendChangesLoop_Break(_, _, _, _, _, _)
SendChangesLoop_Break(v, args, dead, i, out, badchannelid) ==
  IF i >= kv_size(v) THEN [out |-> out, badchannelid |-> badchannelid]
  ELSE LET channelid == kv_A(v, i)
           e == Event(dead, channelid, "nvim_buf_update", args)
       IN IF ~e.ok
          THEN [out |-> Append(out, e), badchannelid |-> channelid]
          ELSE SendChangesLoop_Break(v, args, dead, i + 1, Append(out, e),
                                     badchannelid)

\* mutant: the first failing channel is remembered, later ones are not
RECURSIVE SendChangesLoop_KeepFirst(_, _, _, _, _, _)
SendChangesLoop_KeepFirst(v, args, dead, i, out, badchannelid) ==
  IF i >= kv_size(v) THEN [out |-> out, badchannelid |-> badchannelid]
  ELSE LET channelid == kv_A(v, i)
           e == Event(dead, channelid, "nvim_buf_update", args)
       IN SendChangesLoop_KeepFirst(v, args, dead, i + 1, Append(out, e),
                                    IF ~e.ok /\ badchannelid = 0
                                    THEN channelid ELSE badchannelid)

\* the notification loop of lines 135-183: events sent and badchannelid
RECURSIVE SendChangesLoop(_, _, _, _, _, _)
SendChangesLoop(v, args, dead, i, out, badchannelid) ==
  IF i >= kv_size(v) THEN [out |-> out, badchannelid |-> badchannelid]
  ELSE LET channelid == kv_A(v, i)
           e == Event(dead, channelid, "nvim_buf_update", args)
       IN SendChangesLoop(v, args, dead, i + 1, Append(out, e),
                          IF ~e.ok THEN channelid ELSE badchannelid)

\* mutant: a dead channel is unregistered at once, inside the loop, which
\* then goes on at index i + 1 of the shortened array
RECURSIVE SendChangesLoop_Unregister(_, _, _, _, _)
SendChangesLoop_Unregister(v, args, dead, i, out) ==
  IF i >= kv_size(v) THEN [channels |-> v, out |-> out]
  ELSE LET channelid == kv_A(v, i)
           e == Event(dead, channelid, "nvim_buf_update", args)
           u == buf_updates_unregister(v, channelid, dead)
       IN IF e.ok
          THEN SendChangesLoop_Unregister(v, args, dead, i + 1, Append(out, e))
          ELSE SendChangesLoop_Unregister(u.channels, args, dead, i + 1,
                                          Append(out, e) \o u.out)

buf_updates_send_changes_InLoop(v, lines, tick, firstline, num_added, num_removed, send_tick, dead) ==
  SendChangesLoop_Unregister(v, SendChangesArgs(lines, tick, firstline, num_added, num_removed, send_tick), dead, 0, <<>>)

\* mutant: a flag, not the value 0 of badchannelid, says that a delivery failed
buf_updates_send_changes_Flag(v, lines, tick, firstline, num_added, num_removed, send_tick, dead) ==
  LET args == SendChangesArgs(lines, tick, firstline, num_added, num_removed,
                              send_tick)
      l == SendChangesLoop(v, args, dead, 0, <<>>, 0)
  IN IF \E k \in 1..Len(l.out) : ~l.out[k].ok
     THEN LET u == buf_updates_unregister(v, l.badchannelid, dead)
          IN [channels |-> u.channels, out |-> l.out \o u.out]
     ELSE [channels |-> v, out |-> l.out]

buf_updates_send_changes(v, lines, tick, firstline, num_added, num_removed, send_tick, dead) ==
  LET args == SendChangesArgs(lines, tick, firstline, num_added, num_removed,
                              send_tick)
      l == SendChangesLoop(v, args, dead, 0, <<>>, 0)
  IN IF l.badchannelid # 0
     THEN LET u == buf_updates_unregister(v, l.badchannelid, dead)
          IN [channels |-> u.channels, out |-> l.out \o u.out]
     ELSE [channels |-> v, out |-> l.out]

\* ---------------------------------------------- buf_updates_changedtick
RECURSIVE ChangedtickLoop(_, _, _, _)
ChangedtickLoop(v, tick, dead, i) ==
  IF i >= kv_size(v) THEN <<>>
  ELSE << Event(dead, kv_A(v, i), "nvim_buf_changedtick",
                << BUFFER_OBJ(handle), INTEGER_OBJ(tick) >>) >>
       \o ChangedtickLoop(v, tick, dead, i + 1)

\* mutant: a channel whose delivery failed is unregistered, as in send_changes
buf_updates_changedtick_Reap(v, tick, dead) ==
  LET out == ChangedtickLoop(v, tick, dead, 0)
      bad == SelectSeq(out, LAMBDA e : ~e.ok)
  IN IF bad # <<>>
     THEN LET u == buf_updates_unregister(v, bad[Len(bad)].ch, dead)
          IN [channels |-> u.channels, out |-> out \o u.out]
     ELSE [channels |-> v, out |-> out]

buf_updates_changedtick(v, tick, dead) ==
  [channels |-> v, out |-> ChangedtickLoop(v, tick, dead, 0)]

\* ------------------------------------------------------------- the system
\* what is appended to the history for the events of one call
Hist(out) == [k \in 1..Len(out) |-> [ch |-> out[k].ch, ev |-> out[k].ev]]

NoCall ==
  [op |-> "none", ch |-> 0, flag |-> FALSE, ret |-> TRUE,
   before |-> <<>>, loaded |-> TRUE, out |-> <<>>,
   firstline |-> 0, num_added |-> 0, num_removed |-> 0, text |-> <<>>]

Init ==
  /\ ml_mfp = TRUE
  /\ update_channels = kv_init
  /\ b_changedtick = 0
  /\ ml_lines = InitialText
  /\ sent = <<>>
  /\ call = NoCall

\* no entry point is running: the editor's thread is between two calls
Idle == call.op = "none"

\* a call is started only while fewer than MaxSent events have been sent
CanSend == Idle /\ Len(sent) < MaxSent

Subscribe ==
  /\ CanSend
  /\ \E c \in Channels, s \in BOOLEAN : \E dead \in SUBSET {c} :
       LET r == buf_updates_register(ml_mfp, update_channels, ml_lines,
                                     b_changedtick, c, s, dead)
       IN /\ update_channels' = r.channels
          /\ sent' = sent \o Hist(r.out)
          /\ call' = [NoCall EXCEPT !.op = "register", !.ch = c, !.flag = s,
                        !.ret = r.ret, !.loaded = ml_mfp,
                        !.before = update_channels, !.text = ml_lines, !.out = r.out]
  /\ UNCHANGED <<ml_mfp, b_changedtick, ml_lines>>

Unsubscribe ==
  /\ CanSend
  /\ \E c \in Channels : \E dead \in SUBSET {c} :
       LET r == buf_updates_unregister(update_channels, c, dead)
       IN /\ update_channels' = r.channels
          /\ sent' = sent \o Hist(r.out)
          /\ call' = [NoCall EXCEPT !.op = "unregister", !.ch = c,
                        !.loaded = ml_mfp,
                        !.before = update_channels, !.text = ml_lines, !.out = r.out]
  /\ UNCHANGED <<ml_mfp, b_changedtick, ml_lines>>

UnsubscribeAll ==
  /\ CanSend
  /\ \E dead \in SUBSET Range(update_channels) :
       LET r == buf_updates_unregister_all(update_channels, dead)
       IN /\ update_channels' = r.channels
          /\ sent' = sent \o Hist(r.out)
          /\ call' = [NoCall EXCEPT !.op = "unregister_all",
                        !.loaded = ml_mfp,
                        !.before = update_channels, !.text = ml_lines, !.out = r.out]
  /\ UNCHANGED <<ml_mfp, b_changedtick, ml_lines>>

\* the caller reports a change of lines that exist in the buffer; num_added
\* is an int64_t and may be negative
PublishLines ==
  /\ CanSend
  /\ ml_mfp
  /\ \E firstline \in 1..Len(ml_lines), num_added \in (-1)..Len(ml_lines),
        num_removed \in 0..1, send_tick \in BOOLEAN,
        dead \in SUBSET Range(update_channels) :
       /\ firstline + num_added - 1 <= Len(ml_lines)
       /\ LET r == buf_updates_send_changes(update_channels, ml_lines,
                     b_changedtick, firstline, num_added, num_removed,
                     send_tick, dead)
          IN /\ update_channels' = r.channels
             /\ sent' = sent \o Hist(r.out)
             /\ call' = [NoCall EXCEPT !.op = "send_changes",
                           !.flag = send_tick, !.loaded = ml_mfp,
                           !.before = update_channels, !.text = ml_lines,
                           !.out = r.out, !.firstline = firstline,
                           !.num_added = num_added,
                           !.num_removed = num_removed]
  /\ UNCHANGED <<ml_mfp, b_changedtick, ml_lines>>

PublishChangedtick ==
  /\ CanSend
  /\ ml_mfp
  /\ \E dead \in SUBSET Range(update_channels) :
       LET r == buf_updates_changedtick(update_channels, b_changedtick, dead)
       IN /\ update_channels' = r.channels
          /\ sent' = sent \o Hist(r.out)
          /\ call' = [NoCall EXCEPT !.op = "changedtick",
                        !.loaded = ml_mfp,
                        !.before = update_channels, !.text = ml_lines, !.out = r.out]
  /\ UNCHANGED <<ml_mfp, b_changedtick, ml_lines>>

\* the editing core changes the text and advances the tick
BufEdit ==
  /\ Idle
  /\ ml_mfp
  /\ b_changedtick < MaxTick
  /\ ml_lines' \in Buffers \ {ml_lines}
  /\ b_changedtick' = b_changedtick + 1
  /\ UNCHANGED <<ml_mfp, update_channels, sent, call>>

\* the buffer is unloaded: its channels are detached, then the memfile closed
BufUnload ==
  /\ CanSend
  /\ ml_mfp
  /\ \E dead \in SUBSET Range(update_channels) :
       LET r == buf_updates_unregister_all(update_channels, dead)
       IN /\ update_channels' = r.channels
          /\ sent' = sent \o Hist(r.out)
          /\ call' = [NoCall EXCEPT !.op = "unload",
                        !.loaded = ml_mfp,
                        !.before = update_channels, !.text = ml_lines, !.out = r.out]
  /\ ml_mfp' = FALSE
  /\ UNCHANGED <<b_changedtick, ml_lines>>

\* the buffer is loaded again
BufLoad ==
  /\ Idle
  /\ ~ml_mfp
  /\ ml_mfp' = TRUE
  /\ UNCHANGED <<update_channels, b_changedtick, ml_lines, sent, call>>

\* the entry point returns to its caller, which drops the record of the call
Return ==
  /\ ~Idle
  /\ call' = NoCall
  /\ UNCHANGED <<ml_mfp, update_channels, b_changedtick, ml_lines, sent>>

Next ==
  \/ Subscribe
  \/ Unsubscribe
  \/ UnsubscribeAll
  \/ PublishLines
  \/ PublishChangedtick
  \/ BufEdit
  \/ BufUnload
  \/ BufLoad
  \/ Return

Spec == Init /\ [][Next]_vars

\* ------------------------------------------- repeated change notifications
\* A second specification, for what repeated calls of send_changes do to a
\* set of subscribers that is given at the start and gets no new members.
\* Its behaviours are infinite, so its calls do not extend the history
\* `sent': that one holds the attach events of the initial subscribers.

\* the channel lists without a repeated id, of up to MaxSubscribers ids
ChannelLists ==
  {v \in UNION {[1..n -> Channels] : n \in 0..MaxSubscribers} :
     \A i, j \in 1..Len(v) : i # j => v[i] # v[j]}

InitLive ==
  /\ ml_mfp = TRUE
  /\ update_channels \in ChannelLists
  /\ b_changedtick = 0
  /\ ml_lines = InitialText
  /\ sent = [k \in 1..Len(update_channels) |->
              [ch |-> update_channels[k], ev |-> "nvim_buf_updates_start"]]
  /\ call = NoCall

LivePublishLines ==
  /\ \E send_tick \in BOOLEAN, dead \in SUBSET Range(update_channels) :
       LET firstline == 1
           num_added == 1
           num_removed == 1
           r == buf_updates_send_changes(update_channels, ml_lines,
                  b_changedtick, firstline, num_added, num_removed,
                  send_tick, dead)
       IN /\ update_channels' = r.channels
          /\ call' = [NoCall EXCEPT !.op = "send_changes",
                        !.flag = send_tick, !.loaded = ml_mfp,
                        !.before = update_channels, !.text = ml_lines,
                        !.out = r.out, !.firstline = firstline,
                        !.num_added = num_added,
                        !.num_removed = num_removed]
  /\ UNCHANGED <<ml_mfp, b_changedtick, ml_lines, sent>>

LivePublishChangedtick ==
  /\ \E dead \in SUBSET Range(update_channels) :
       LET r == buf_updates_changedtick(update_channels, b_changedtick, dead)
       IN /\ update_channels' = r.channels
          /\ call' = [NoCall EXCEPT !.op = "changedtick",
                        !.loaded = ml_mfp,
                        !.before = update_channels, !.text = ml_lines,
                        !.out = r.out]
  /\ UNCHANGED <<ml_mfp, b_changedtick, ml_lines, sent>>

NextLive ==
  \/ LivePublishLines
  \/ LivePublishChangedtick

\* change notifications are frequent: send_changes is called again and again
SpecLive == InitLive /\ [][NextLive]_vars /\ WF_vars(LivePublishLines)

\* ------------------------------------------------------------ vocabulary
Attach == "nvim_buf_updates_start"
Detach == "nvim_buf_updates_end"
LinesChanged == "nvim_buf_update"
Changedtick == "nvim_buf_changedtick"

\* the channels of the events of kind ev in a call's output, in order
OutChannels(out, ev) ==
  LET s == SelectSeq(out, LAMBDA e : e.ev = ev)
  IN [k \in 1..Len(s) |-> s[k].ch]

\* the channels whose lines-changed delivery failed in a call, in order
FailedChannels(out) ==
  LET s == SelectSeq(out, LAMBDA e : e.ev = LinesChanged /\ ~e.ok)
  IN [k \in 1..Len(s) |-> s[k].ch]

\* a sequence with every occurrence of c deleted
Without(seq, c) == SelectSeq(seq, LAMBDA x : x # c)

\* number of events of kind ev sent to c so far
NumSent(c, ev) ==
  Cardinality({k \in 1..Len(sent) : sent[k].ch = c /\ sent[k].ev = ev})

\* number of positions of seq holding c
Occurrences(seq, c) == Cardinality({k \in 1..Len(seq) : seq[k] = c})

\* position of the last attach to c in the history, 0 if there is none
LastAttach(c) ==
  LET at == {k \in 1..Len(sent) : sent[k].ch = c /\ sent[k].ev = Attach}
  IN IF at = {} THEN 0 ELSE CHOOSE k \in at : \A m \in at : m <= k

\* ---------------------------------------------------------------- claims

\* C1: the first event ever sent to a channel is an attach, and every
\* lines-changed or changedtick event sent to a channel is preceded by an
\* attach to that channel with no detach to it in between.
C1_DeltaOnlyWhileAttached ==
  \A k \in 1..Len(sent) :
    LET c == sent[k].ch
    IN /\ (\A j \in 1..(k - 1) : sent[j].ch # c) => sent[k].ev = Attach
       /\ sent[k].ev \in {LinesChanged, Changedtick} =>
            \E j \in 1..(k - 1) :
              /\ sent[j].ch = c /\ sent[j].ev = Attach
              /\ \A m \in (j + 1)..(k - 1) :
                   ~(sent[m].ch = c /\ sent[m].ev = Detach)

\* a channel was attached, detached, attached again and then sent a delta
C1_Witness ==
  \E k \in 1..Len(sent) :
    /\ sent[k].ev \in {LinesChanged, Changedtick}
    /\ \E j \in 1..(k - 1) : sent[j].ch = sent[k].ch /\ sent[j].ev = Detach

\* C2: a fan-out call (send_changes, changedtick) invokes the sink with its
\* event exactly once for each channel subscribed when the call starts, in
\* insertion order, and for no other channel, whatever the sink returns.
C2_FanOutToEachSubscriberOnce ==
  /\ call.op = "send_changes" =>
       /\ OutChannels(call.out, LinesChanged) = call.before
       /\ \A k \in 1..Len(call.out) : call.out[k].ch \in Range(call.before)
  /\ call.op = "changedtick" =>
       /\ OutChannels(call.out, Changedtick) = call.before
       /\ Len(call.out) = Len(call.before)

\* a fan-out to three subscribers of which the first delivery failed
C2_Witness ==
  /\ call.op = "send_changes"
  /\ Len(call.before) = 3
  /\ ~call.out[1].ok
  /\ call.out[2].ok

\* C3 as stated: when more than one delivery fails, the first failing
\* channel in insertion order is the one unsubscribed and the later failing
\* ones stay; [21, 22, 23] with 22 and 23 failing ends with a detach to 22
\* and subscribers [21, 23].  Stated for subscriber sets without the id 0,
\* so that the value 0 of badchannelid plays no part in a violation.
C3_Original ==
  (/\ call.op = "send_changes"
   /\ Len(FailedChannels(call.out)) >= 2
   /\ 0 \notin Range(call.before)) =>
    LET first == FailedChannels(call.out)[1]
    IN /\ update_channels = Without(call.before, first)
       /\ OutChannels(call.out, Detach) = << first >>

\* C3 amended: when more than one delivery fails, no channel other than the
\* last failing one in insertion order is unsubscribed, that one is
\* unsubscribed with one detach whenever its id is not 0, and the earlier
\* failing ones stay subscribed; [21, 22, 23] with 22 and 23 failing ends
\* with a detach to 23 and subscribers [21, 22].
C3_LastFailingIsReaped ==
  (call.op = "send_changes" /\ Len(FailedChannels(call.out)) >= 2) =>
    LET failed == FailedChannels(call.out)
        last == failed[Len(failed)]
    IN /\ \A k \in 1..(Len(failed) - 1) : failed[k] \in Range(update_channels)
       /\ update_channels \in {call.before, Without(call.before, last)}
       /\ last # 0 => /\ update_channels = Without(call.before, last)
                      /\ OutChannels(call.out, Detach) = << last >>
       /\ (call.before = <<21, 22, 23>> /\ failed = <<22, 23>>) =>
            /\ update_channels = <<21, 22>>
            /\ OutChannels(call.out, Detach) = <<23>>

\* the scenario of the claim: [21, 22, 23], deliveries to 22 and 23 fail
C3_Witness ==
  /\ call.op = "send_changes"
  /\ call.before = <<21, 22, 23>>
  /\ FailedChannels(call.out) = <<22, 23>>

\* C4 as stated: one send_changes call removes at most one channel and sends
\* at most one detach; when a delivery fails it unsubscribes exactly one
\* channel whose delivery failed; when none fails it removes none.
C4_ReapsExactlyOneOnFailure ==
  call.op = "send_changes" =>
    LET failed == FailedChannels(call.out)
        detached == OutChannels(call.out, Detach)
    IN /\ Len(call.before) - Len(update_channels) \in {0, 1}
       /\ Len(detached) <= 1
       /\ Len(failed) > 0 =>
            \E k \in 1..Len(failed) :
              /\ update_channels = Without(call.before, failed[k])
              /\ Len(update_channels) = Len(call.before) - 1
              /\ detached = << failed[k] >>
       /\ Len(failed) = 0 => update_channels = call.before /\ detached = <<>>

\* C5: for each channel, attaches sent minus detaches sent is 1 if the
\* channel is subscribed and 0 otherwise; so the size of the subscriber set
\* is the total of attaches minus the total of detaches.
C5_AttachDetachBalance ==
  /\ \A c \in Channels :
       NumSent(c, Attach) - NumSent(c, Detach) =
         (IF c \in Range(update_channels) THEN 1 ELSE 0)
  /\ Len(update_channels) =
       Len(SelectSeq(sent, LAMBDA e : e.ev = Attach))
       - Len(SelectSeq(sent, LAMBDA e : e.ev = Detach))

\* a subscribed channel on its second attachment beside another subscriber
C5_Witness ==
  \E c \in Range(update_channels) :
    /\ NumSent(c, Attach) = 2
    /\ NumSent(c, Detach) = 1
    /\ Len(update_channels) = 2

\* C6: the subscriber set never holds a channel id more than once, so the
\* removal loop of unsubscribe finds any channel 0 or 1 times.
C6_NoDuplicates ==
  \A c \in Channels :
    /\ Occurrences(update_channels, c) <= 1
    /\ UnregisterLoop(update_channels, c, 0, 0, 0).found <= 1

\* a subscribe of a channel that is already one of three subscribers
C6_Witness ==
  /\ call.op = "register"
  /\ call.ch \in Range(call.before)
  /\ Len(update_channels) = 3

\* C7: subscribe of a channel not yet subscribed, on a loaded buffer,
\* returns true, appends the channel as last element, sends one attach to
\* it and nothing else, with or without snapshot; after a subscribe that
\* returned true the channel is subscribed.
C7_FreshSubscribe ==
  /\ (call.op = "register" /\ call.loaded /\ call.ch \notin Range(call.before)) =>
       /\ call.ret
       /\ update_channels = Append(call.before, call.ch)
       /\ Len(call.out) = 1
       /\ call.out[1].ch = call.ch
       /\ call.out[1].ev = Attach
  /\ (call.op = "register" /\ call.ret) => call.ch \in Range(update_channels)

\* a fresh subscribe without snapshot behind two earlier subscribers
C7_Witness ==
  /\ call.op = "register"
  /\ call.loaded
  /\ ~call.flag
  /\ Len(call.before) = 2
  /\ call.ch \notin Range(call.before)

\* C8: subscribe of an already subscribed channel returns true, sends
\* nothing and leaves the set alone; so after a successful subscribe a second
\* subscribe of the same channel, with either send_buffer value, changes
\* neither the set nor the events (one attach since the channel was added).
C8_RepeatedSubscribe ==
  /\ (call.op = "register" /\ call.loaded /\ call.ch \in Range(call.before)) =>
       /\ call.ret
       /\ call.out = <<>>
       /\ update_channels = call.before
  /\ (call.op = "register" /\ call.ret) =>
       /\ \A s \in BOOLEAN, dead \in SUBSET {call.ch} :
            LET r == buf_updates_register(ml_mfp, update_channels, ml_lines,
                                          b_changedtick, call.ch, s, dead)
            IN r.ret /\ r.out = <<>> /\ r.channels = update_channels
       /\ LastAttach(call.ch) > 0
       /\ \A k \in (LastAttach(call.ch) + 1)..Len(sent) :
            sent[k].ch = call.ch => sent[k].ev # Attach

\* the second of two subscribes of one channel, the first with snapshot and
\* the second without
C8_Witness ==
  /\ call.op = "register"
  /\ call.loaded
  /\ ~call.flag
  /\ call.ch \in Range(call.before)
  /\ sent = << [ch |-> call.ch, ev |-> Attach] >>

\* C9: subscribe on a buffer that is not loaded returns false, sends nothing
\* and leaves the set alone (whatever the set holds); subscribe returns false
\* in no other case.
C9_SubscribeUnloaded ==
  /\ (call.op = "register" /\ ~call.loaded) =>
       /\ ~call.ret
       /\ call.out = <<>>
       /\ update_channels = call.before
  /\ (call.op = "register" /\ ~call.ret) => ~call.loaded
  /\ \A c \in Channels, s \in BOOLEAN, dead \in SUBSET Channels :
       LET r == buf_updates_register(FALSE, update_channels, ml_lines,
                                     b_changedtick, c, s, dead)
       IN ~r.ret /\ r.out = <<>> /\ r.channels = update_channels

\* a subscribe with snapshot on the unloaded buffer, after earlier events
C9_Witness ==
  /\ call.op = "register"
  /\ ~call.loaded
  /\ call.flag
  /\ ~call.ret
  /\ Len(sent) >= 2

\* C10: unsubscribe of a subscribed channel removes it, sends one detach to
\* it and nothing to any other channel; afterwards the channel is not
\* subscribed and one detach has been sent to it since its last attach; if
\* it was the only subscriber the set is empty.
C10_UnsubscribeSubscribed ==
  (call.op = "unregister" /\ call.ch \in Range(call.before)) =>
    /\ Len(call.out) = 1
    /\ call.out[1].ch = call.ch
    /\ call.out[1].ev = Detach
    /\ call.ch \notin Range(update_channels)
    /\ Range(update_channels) = Range(call.before) \ {call.ch}
    /\ Cardinality({k \in (LastAttach(call.ch) + 1)..Len(sent) :
                      sent[k].ch = call.ch /\ sent[k].ev = Detach}) = 1
    /\ LastAttach(call.ch) > 0
    /\ call.before = << call.ch >> => update_channels = <<>>

\* an unsubscribe of the middle one of three subscribers
C10_Witness ==
  /\ call.op = "unregister"
  /\ Len(call.before) = 3
  /\ call.before[2] = call.ch
  /\ Len(update_channels) = 2

\* C11: unsubscribe of a channel that is not subscribed sends nothing and
\* leaves the set alone, also when the set is empty and directly after an
\* unsubscribe-all.
C11_UnsubscribeNotSubscribed ==
  /\ (call.op = "unregister" /\ call.ch \notin Range(call.before)) =>
       /\ call.out = <<>>
       /\ update_channels = call.before
  /\ call.op = "unregister_all" =>
       \A c \in Channels, dead \in SUBSET Channels :
         LET r == buf_updates_unregister(update_channels, c, dead)
         IN r.out = <<>> /\ r.channels = update_channels

\* an unsubscribe of a channel that is not among the two subscribers
C11_Witness ==
  /\ call.op = "unregister"
  /\ Len(call.before) = 2
  /\ call.ch \notin Range(call.before)

\* C12: unsubscribe-all sends one detach to each subscriber, in insertion
\* order, and to no other channel, and leaves the set empty; on an empty set
\* it sends nothing.
C12_UnsubscribeAll ==
  call.op = "unregister_all" =>
    /\ Len(call.out) = Len(call.before)
    /\ \A k \in 1..Len(call.out) :
         call.out[k].ch = call.before[k] /\ call.out[k].ev = Detach
    /\ update_channels = <<>>
    /\ call.before = <<>> => call.out = <<>>

\* an unsubscribe-all of two subscribers whose first detach failed
C12_Witness ==
  /\ call.op = "unregister_all"
  /\ Len(call.before) = 2
  /\ ~call.out[1].ok
  /\ call.out[2].ok

\* a sequence with its element at position k deleted
DeleteAt(seq, k) == SubSeq(seq, 1, k - 1) \o SubSeq(seq, k + 1, Len(seq))

\* C13: a removal, by unsubscribe or by the reaping of send_changes, leaves
\* the other subscribers in their order: the new list is the old one with
\* the element of that channel deleted.
C13_RemovalKeepsOrder ==
  /\ (call.op = "unregister" /\ call.ch \in Range(call.before)) =>
       \E k \in 1..Len(call.before) :
         call.before[k] = call.ch /\ update_channels = DeleteAt(call.before, k)
  /\ (call.op = "send_changes" /\ update_channels # call.before) =>
       \E k \in 1..Len(call.before) :
         /\ update_channels = DeleteAt(call.before, k)
         /\ OutChannels(call.out, Detach) = << call.before[k] >>

\* an unsubscribe of the first of three subscribers
C13_Witness ==
  /\ call.op = "unregister"
  /\ Len(call.before) = 3
  /\ call.before[1] = call.ch
  /\ Len(update_channels) = 2

\* C14: a failed delivery of an attach, detach or changedtick event never
\* changes what the call does to the subscriber set: subscribe still adds
\* the channel and returns true, unsubscribe and unsubscribe-all still remove,
\* changedtick leaves the set as it was whatever the sink returns; a call
\* that is no unsubscribe removes a channel only after a failed
\* lines-changed delivery.
C14_OnlyLinesChangedFailureRemoves ==
  /\ (/\ call.op = "register" /\ call.loaded
      /\ call.ch \notin Range(call.before)
      /\ \E k \in 1..Len(call.out) : ~call.out[k].ok) =>
       call.ret /\ update_channels = Append(call.before, call.ch)
  /\ (/\ call.op = "unregister" /\ call.ch \in Range(call.before)
      /\ \E k \in 1..Len(call.out) : ~call.out[k].ok) =>
       /\ call.ch \notin Range(update_channels)
       /\ Len(update_channels) = Len(call.before) - 1
  /\ call.op = "unregister_all" => update_channels = <<>>
  /\ call.op = "changedtick" => update_channels = call.before
  /\ \A dead \in SUBSET Channels :
       buf_updates_changedtick(update_channels, b_changedtick, dead).channels
         = update_channels
  /\ (\E c \in Range(call.before) : c \notin Range(update_channels)) =>
       \/ call.op \in {"unregister", "unregister_all", "unload"}
       \/ call.op = "send_changes" /\ FailedChannels(call.out) # <<>>

\* a changedtick fan-out to two subscribers of which the first delivery failed
C14_Witness ==
  /\ call.op = "changedtick"
  /\ Len(call.before) = 2
  /\ ~call.out[1].ok
  /\ call.out[2].ok

\* the payload expected for a stored line: every NL byte becomes NUL
Payload(line) == [k \in 1..Len(line) |-> IF line[k] = 10 THEN 0 ELSE line[k]]

\* the string objects expected for lines from..(from + n - 1) of a text
Payloads(text, from, n) ==
  IF n > 0
  THEN [i \in 1..n |-> [type |-> "string", data |-> Payload(text[from + i - 1])]]
  ELSE <<>>

\* C15: every lines-changed event of send_changes(firstline, num_added,
\* num_removed, send_tick) carries [handle, tick, firstline - 1,
\* firstline - 1 + num_removed, lines]: tick is the buffer's changedtick if
\* send_tick and nil otherwise, lines are the num_added lines from firstline
\* on (none when num_added <= 0); all subscribers get the same tuple.
C15_LinesChangedPayload ==
  call.op = "send_changes" =>
    \A k \in 1..Len(call.out) :
      call.out[k].ev = LinesChanged =>
        LET a == call.out[k].args
        IN /\ Len(a) = 5
           /\ a[1] = [type |-> "buffer", data |-> 7]
           /\ a[2].type = (IF call.flag THEN "integer" ELSE "nil")
           /\ call.flag => a[2] = [type |-> "integer", data |-> b_changedtick]
           /\ ~call.flag => a[2] = [type |-> "nil"]
           /\ a[3] = [type |-> "integer", data |-> call.firstline - 1]
           /\ a[4] = [type |-> "integer",
                      data |-> call.firstline - 1 + call.num_removed]
           /\ call.num_removed = 0 => a[4].data = call.firstline - 1
           /\ a[5].type = "array"
           /\ a[5].data = Payloads(ml_lines, call.firstline, call.num_added)
           /\ Len(a[5].data) = (IF call.num_added > 0 THEN call.num_added ELSE 0)
           /\ a = call.out[1].args

\* a report of two added lines and one removed, with tick, to two subscribers
C15_Witness ==
  /\ call.op = "send_changes"
  /\ Len(call.before) = 2
  /\ call.flag
  /\ call.num_added = 2
  /\ call.num_removed = 1
  /\ b_changedtick = 1

\* C16: the attach event of a fresh subscribe carries [handle, changedtick,
\* lines, false]: lines are all lines of the buffer, in order, if send_buffer,
\* and the empty array otherwise.
C16_AttachPayload ==
  (call.op = "register" /\ call.loaded /\ call.ch \notin Range(call.before)) =>
    /\ Len(call.out) = 1
    /\ LET a == call.out[1].args
       IN /\ Len(a) = 4
          /\ a[1] = [type |-> "buffer", data |-> 7]
          /\ a[2] = [type |-> "integer", data |-> b_changedtick]
          /\ a[3].type = "array"
          /\ a[3].data = (IF call.flag THEN Payloads(ml_lines, 1, Len(ml_lines))
                          ELSE <<>>)
          /\ call.flag => Len(a[3].data) = Len(ml_lines)
          /\ a[4] = [type |-> "boolean", data |-> FALSE]

\* a fresh subscribe with snapshot of the two-line text beside a subscriber
C16_Witness ==
  /\ call.op = "register"
  /\ call.loaded
  /\ call.flag
  /\ call.ch \notin Range(call.before)
  /\ Len(call.before) = 1
  /\ Len(ml_lines) = 2

\* the line payloads of an event, each with the number of its buffer line
LinePayloads(e) ==
  IF e.ev = Attach
  THEN {<<i, e.args[3].data[i].data>> : i \in 1..Len(e.args[3].data)}
  ELSE IF e.ev = LinesChanged
  THEN {<<call.firstline + i - 1, e.args[5].data[i].data>> :
          i \in 1..Len(e.args[5].data)}
  ELSE {}

\* C17: every line payload of an attach or lines-changed event is the stored
\* line with each NL byte replaced by NUL, the other bytes and the length
\* unchanged, so no payload holds an NL byte; the stored text is untouched.
C17_NoNewlineInPayload ==
  /\ \A k \in 1..Len(call.out) :
       \A p \in LinePayloads(call.out[k]) :
         LET src == call.text[p[1]]
             pay == p[2]
         IN /\ Len(pay) = Len(src)
            /\ \A m \in 1..Len(src) :
                 /\ src[m] = 10 => pay[m] = 0
                 /\ src[m] # 10 => pay[m] = src[m]
            /\ \A m \in 1..Len(pay) : pay[m] # 10
  /\ ~Idle => ml_lines = call.text

\* an event carries the payload of a stored line with two NL bytes
C17_Witness ==
  \E k \in 1..Len(call.out) :
    \E p \in LinePayloads(call.out[k]) :
      /\ call.text[p[1]] = <<10, 98, 10>>
      /\ p[2] = <<0, 98, 0>>

\* C18: the subscriber set is not changed while send_changes iterates: every
\* channel subscribed at the start, also one placed after a channel whose
\* delivery failed, is sent the lines-changed event, and the removal of the
\* dead channel and its detach come only after the last lines-changed event.
C18_ReapAfterFanOut ==
  call.op = "send_changes" =>
    LET n == Len(call.before)
    IN /\ Len(call.out) \in {n, n + 1}
       /\ \A k \in 1..n :
            call.out[k].ev = LinesChanged /\ call.out[k].ch = call.before[k]
       /\ \A k \in (n + 1)..Len(call.out) :
            /\ call.out[k].ev = Detach
            /\ \E j \in 1..n : call.out[j].ch = call.out[k].ch /\ ~call.out[j].ok
            /\ call.out[k].ch \notin Range(update_channels)
       /\ update_channels # call.before => Len(call.out) = n + 1

\* three subscribers, only the delivery to the first fails: the two behind
\* it are served before the detach
C18_Witness ==
  /\ call.op = "send_changes"
  /\ Len(call.out) = 4
  /\ ~call.out[1].ok
  /\ call.out[2].ok /\ call.out[3].ok
  /\ call.out[4].ev = Detach
  /\ call.out[4].ch = call.before[1]

DeliveryFails(c) ==
  \A k \in 1..Len(call.out) :
    (call.out[k].ch = c /\ call.out[k].ev = LinesChanged) => ~call.out[k].ok

\* C19: when send_changes is called again and again, every subscribed
\* channel whose lines-changed deliveries always fail is eventually removed
\* from the subscriber set, also when several subscribers are dead at once.
\* ([]A => <>B is <>(~A \/ B): a delivery to c succeeds or c is removed.)
C19_DeadChannelEventuallyReaped ==
  \A c \in Channels :
    <>(~DeliveryFails(c) \/ c \notin Range(update_channels))

\* what does hold: the same, in the behaviours in which channel 0 is no
\* subscriber
C19_ReapedWhenZeroAbsent ==
  \A c \in Channels :
    <>(\/ ~DeliveryFails(c)
       \/ c \notin Range(update_channels)
       \/ 0 \in Range(update_channels))
====
